---- MODULE Spec2Model ----
(***************************************************************************)
(* Model of the chat relay server src/src/bin/server.rs: the acceptor loop *)
(* of main, one handle_client task per accepted connection, and the shared *)
(* registry db: Arc<Mutex<HashMap<String, OwnedWriteHalf>>>.               *)
(*                                                                         *)
(* A connection is a number 1..MaxConn in order of acceptance; its write   *)
(* half is identified with the connection.  Text is a sequence of one-     *)
(* character strings.  Peer addresses come from the transport: an address  *)
(* is handed out again only after the task of the earlier connection with  *)
(* that address has returned (its socket is closed); addresses are named   *)
(* in the order of their first appearance.                                 *)
(***************************************************************************)
EXTENDS Integers, Sequences, FiniteSets, TLC

\* ---------------------------------------------------------------- bounds
MaxConn == 3
MaxLines == 2
\* The most bytes one write call of write_all hands to the socket.
MaxChunk == 3

\* ------------------------------------------------------------- constants
Letters == <<"A", "B", "C", "D", "E">>
Addrs == {Letters[i] : i \in 1..MaxConn}
NoConn == 0
NoKey == "-"
NoEntry == [key |-> NoKey, w |-> NoConn]
Conns == 1..MaxConn
\* What one read_line can deliver with n > 0: a line ended by its newline,
\* or, when the peer closes after unterminated bytes, the bytes alone.
Terminated == {<<"x", "\n">>}
Unterminated == {<<"y">>}
Separator == <<":", " ">>

VARIABLES
  main,        \* "accepting" | "panicked": the acceptor loop of main
  acceptErr,   \* TRUE once a listener.accept() has returned an error
  nconn,       \* number of connections accepted so far
  addr,        \* addr[c]: the identifier handed to handle_client, or NoKey
  pc,          \* pc[c]: position of connection c's handle_client task
  db,          \* db[k]: the write half stored under key k, or NoConn
  lock,        \* holder of the registry Mutex, or NoConn
  line,        \* line[c]: the task's String line
  msg,         \* msg[c]: the task's String msg of the current iteration
  lineno,      \* lineno[c]: which read (counted over all sessions) delivered
               \*   the line the task holds, or 0
  eof,         \* eof[c]: the peer has closed its sending side and all is read
  todo,        \* todo[c]: keys iter_mut() of c's fanout has still to yield
  cur,         \* cur[c]: the entry (key, write half w) whose write_all is in
               \*   progress, or NoEntry
  off,         \* off[c]: bytes of msg[c] the write_all in progress has written
  out,         \* out[c]: what was written to c's write half: each byte ch
               \*   with the broadcast b, its place i and the length n of msg,
               \*   the sender s and the number l of the sender's line
  wbroken,     \* wbroken[c]: a write to connection c's write half has failed
  nread,       \* number of lines read so far, all sessions together
  nbcast,      \* number of broadcasts that have acquired the lock so far
  mybc,        \* mybc[c]: the number of c's fanout in progress, or 0
  snap,        \* snap[c]: the registry when c's fanout acquired the lock
  att,         \* att[c][k]: write_all calls c's fanout has started to key k
  errs         \* errs[c]: keys whose write_all returned Err in c's fanout

vars == <<main, acceptErr, nconn, addr, pc, db, lock, line, msg, lineno, eof,
          todo, cur, off, out, wbroken, nread, nbcast, mybc, snap, att, errs>>

sessVars == <<line, msg, lineno, nread>>
fanVars == <<todo, cur, off, nbcast, mybc, snap, att, errs>>
sockVars == <<eof, out, wbroken>>
mainVars == <<main, acceptErr, nconn, addr>>

\* ---------------------------------------------------------------- helpers
\* The key made of the IP address alone: the same for every local peer.
ClientKeyIpOnly(a) == Letters[1]

\* addr.to_string(): the registry key of a peer address.
ClientKey(a) == a

\* format!("{}: {}", addr, line)
Format(a, l) == <<a>> \o Separator \o l

\* The keys present in the HashMap.
Keys(m) == {k \in Addrs : m[k] # NoConn}

EmptyMap == [k \in Addrs |-> NoConn]
NoAttempts == [k \in Addrs |-> 0]

\* The process runs until main panics.
Running == main = "accepting"

\* A lock that is granted while another task holds the guard.
LockFreeAlways == TRUE

\* Mutex::lock().await completes only when no task holds the guard.
LockFree == lock = NoConn

\* The comparison left out: every entry is a recipient.
IsRecipientAll(k, a) == TRUE

\* if *client_addr != addr
IsRecipient(k, a) == k # a

\* Peer addresses a new connection can have: one whose earlier connections
\* are all closed, or the first address not seen yet.
Used == {addr[c] : c \in 1..nconn}
Free == {a \in Addrs : \A c \in Conns : addr[c] = a => pc[c] = "done"}
Available == {a \in Free : a \in Used \/ \A i \in 1..MaxConn :
                             Letters[i] = a => \A j \in 1..(i - 1) : Letters[j] \in Used}

Init ==
  /\ main = "accepting"
  /\ acceptErr = FALSE
  /\ nconn = 0
  /\ addr = [c \in Conns |-> NoKey]
  /\ pc = [c \in Conns |-> "unborn"]
  /\ db = EmptyMap
  /\ lock = NoConn
  /\ line = [c \in Conns |-> <<>>]
  /\ msg = [c \in Conns |-> <<>>]
  /\ lineno = [c \in Conns |-> 0]
  /\ eof = [c \in Conns |-> FALSE]
  /\ todo = [c \in Conns |-> {}]
  /\ cur = [c \in Conns |-> NoEntry]
  /\ off = [c \in Conns |-> 0]
  /\ out = [c \in Conns |-> <<>>]
  /\ wbroken = [c \in Conns |-> FALSE]
  /\ nread = 0
  /\ nbcast = 0
  /\ mybc = [c \in Conns |-> 0]
  /\ snap = [c \in Conns |-> EmptyMap]
  /\ att = [c \in Conns |-> NoAttempts]
  /\ errs = [c \in Conns |-> {}]

\* ------------------------------------------------------------------- main
\* The acceptor registers the connection itself: it waits for the guard and
\* inserts the write half before it goes round the loop.
AcceptAndRegister(a) ==
  /\ Running
  /\ nconn < MaxConn
  /\ a \in Available
  /\ LockFree
  /\ nconn' = nconn + 1
  /\ addr' = [addr EXCEPT ![nconn + 1] = ClientKey(a)]
  /\ db' = [db EXCEPT ![ClientKey(a)] = nconn + 1]
  /\ pc' = [pc EXCEPT ![nconn + 1] = "awaiting"]
  /\ UNCHANGED <<main, acceptErr, lock>>
  /\ UNCHANGED sessVars
  /\ UNCHANGED fanVars
  /\ UNCHANGED sockVars

\* listener.accept().await.unwrap() returns Ok((socket, addr)); the task is
\* spawned and the loop goes round.
Accept(a) ==
  /\ Running
  /\ nconn < MaxConn
  /\ a \in Available
  /\ nconn' = nconn + 1
  /\ addr' = [addr EXCEPT ![nconn + 1] = ClientKey(a)]
  /\ pc' = [pc EXCEPT ![nconn + 1] = "connecting"]
  /\ UNCHANGED <<main, acceptErr, db, lock>>
  /\ UNCHANGED sessVars
  /\ UNCHANGED fanVars
  /\ UNCHANGED sockVars

\* listener.accept().await returns Err: unwrap() panics, main unwinds, the
\* runtime is dropped and the process ends.
AcceptFail ==
  /\ Running
  /\ main' = "panicked"
  /\ acceptErr' = TRUE
  /\ UNCHANGED <<nconn, addr, pc, db, lock>>
  /\ UNCHANGED sessVars
  /\ UNCHANGED fanVars
  /\ UNCHANGED sockVars

\* ---------------------------------------------------------- handle_client
\* The insert goes ahead without waiting for the guard.
LockInsertNoWait(c) ==
  /\ Running
  /\ pc[c] = "connecting"
  /\ lock' = c
  /\ pc' = [pc EXCEPT ![c] = "inserting"]
  /\ UNCHANGED <<db>>
  /\ UNCHANGED mainVars
  /\ UNCHANGED sessVars
  /\ UNCHANGED fanVars
  /\ UNCHANGED sockVars

\* db.lock().await of line 155.
LockInsert(c) ==
  /\ Running
  /\ pc[c] = "connecting"
  /\ LockFree
  /\ lock' = c
  /\ pc' = [pc EXCEPT ![c] = "inserting"]
  /\ UNCHANGED <<db>>
  /\ UNCHANGED mainVars
  /\ UNCHANGED sessVars
  /\ UNCHANGED fanVars
  /\ UNCHANGED sockVars

\* The guard of the insert is kept in a variable that lives on: the lock is
\* still held when the task goes to read_line.
InsertKeepGuard(c) ==
  /\ Running
  /\ pc[c] = "inserting"
  /\ db' = [db EXCEPT ![addr[c]] = c]
  /\ pc' = [pc EXCEPT ![c] = "awaiting"]
  /\ UNCHANGED <<lock>>
  /\ UNCHANGED mainVars
  /\ UNCHANGED sessVars
  /\ UNCHANGED fanVars
  /\ UNCHANGED sockVars

\* The insert goes into a map of the task's own instead of the shared one.
InsertOwnMap(c) ==
  /\ Running
  /\ pc[c] = "inserting"
  /\ db' = [EmptyMap EXCEPT ![addr[c]] = c]
  /\ lock' = NoConn
  /\ pc' = [pc EXCEPT ![c] = "awaiting"]
  /\ UNCHANGED mainVars
  /\ UNCHANGED sessVars
  /\ UNCHANGED fanVars
  /\ UNCHANGED sockVars

\* .insert(addr.clone(), writer); the guard is dropped at the end of the
\* statement.
Insert(c) ==
  /\ Running
  /\ pc[c] = "inserting"
  /\ db' = [db EXCEPT ![addr[c]] = c]
  /\ lock' = NoConn
  /\ pc' = [pc EXCEPT ![c] = "awaiting"]
  /\ UNCHANGED mainVars
  /\ UNCHANGED sessVars
  /\ UNCHANGED fanVars
  /\ UNCHANGED sockVars

\* read_line returns Ok(n), n > 0: the bytes are appended to line and msg
\* is formatted.
ReadLine(c, l) ==
  /\ Running
  /\ pc[c] = "awaiting"
  /\ ~eof[c]
  /\ nread < MaxLines
  /\ nread' = nread + 1
  /\ line' = [line EXCEPT ![c] = line[c] \o l]
  /\ msg' = [msg EXCEPT ![c] = Format(addr[c], line[c] \o l)]
  /\ lineno' = [lineno EXCEPT ![c] = nread + 1]
  /\ eof' = [eof EXCEPT ![c] = l \in Unterminated]
  /\ pc' = [pc EXCEPT ![c] = "gotline"]
  /\ UNCHANGED <<db, lock, out, wbroken>>
  /\ UNCHANGED mainVars
  /\ UNCHANGED fanVars

\* The broadcast goes ahead without waiting for the guard.
LockBroadcastNoWait(c) ==
  /\ Running
  /\ pc[c] = "gotline"
  /\ lock' = c
  /\ pc' = [pc EXCEPT ![c] = "fanout"]
  /\ todo' = [todo EXCEPT ![c] = Keys(db)]
  /\ nbcast' = nbcast + 1
  /\ mybc' = [mybc EXCEPT ![c] = nbcast + 1]
  /\ snap' = [snap EXCEPT ![c] = db]
  /\ UNCHANGED <<db, cur, off, att, errs>>
  /\ UNCHANGED mainVars
  /\ UNCHANGED sessVars
  /\ UNCHANGED sockVars

\* let mut db_lock = db.lock().await; iter_mut() will yield the entries
\* the map holds now.
LockBroadcast(c) ==
  /\ Running
  /\ pc[c] = "gotline"
  /\ LockFree
  /\ lock' = c
  /\ pc' = [pc EXCEPT ![c] = "fanout"]
  /\ todo' = [todo EXCEPT ![c] = Keys(db)]
  /\ nbcast' = nbcast + 1
  /\ mybc' = [mybc EXCEPT ![c] = nbcast + 1]
  /\ snap' = [snap EXCEPT ![c] = db]
  /\ UNCHANGED <<db, cur, off, att, errs>>
  /\ UNCHANGED mainVars
  /\ UNCHANGED sessVars
  /\ UNCHANGED sockVars

\* The iterator does not advance: the entry just yielded is yielded again.
VisitAgain(c, k) ==
  /\ Running
  /\ pc[c] = "fanout"
  /\ cur[c] = NoEntry
  /\ k \in todo[c]
  /\ att[c][k] < 2
  /\ IF IsRecipient(k, addr[c]) /\ db[k] # NoConn
       THEN /\ cur' = [cur EXCEPT ![c] = [key |-> k, w |-> db[k]]]
            /\ att' = [att EXCEPT ![c][k] = @ + 1]
       ELSE UNCHANGED <<cur, att>>
  /\ UNCHANGED <<pc, db, lock, todo, off, nbcast, mybc, snap, errs>>
  /\ UNCHANGED mainVars
  /\ UNCHANGED sessVars
  /\ UNCHANGED sockVars

\* The iterator yields (client_addr, writer), an entry of the map; the
\* sender's own entry is skipped, any other starts
\* writer.write_all(msg.as_bytes()).
Visit(c, k) ==
  /\ Running
  /\ pc[c] = "fanout"
  /\ cur[c] = NoEntry
  /\ k \in todo[c]
  /\ todo' = [todo EXCEPT ![c] = todo[c] \ {k}]
  /\ IF IsRecipient(k, addr[c]) /\ db[k] # NoConn
       THEN /\ cur' = [cur EXCEPT ![c] = [key |-> k, w |-> db[k]]]
            /\ att' = [att EXCEPT ![c][k] = @ + 1]
       ELSE UNCHANGED <<cur, att>>
  /\ UNCHANGED <<pc, db, lock, off, nbcast, mybc, snap, errs>>
  /\ UNCHANGED mainVars
  /\ UNCHANGED sessVars
  /\ UNCHANGED sockVars

\* The bytes off+1 .. off+n of c's msg as they go into a write half.
Bytes(c, n) ==
  [j \in 1..n |-> [b |-> mybc[c], i |-> off[c] + j, n |-> Len(msg[c]),
                   ch |-> msg[c][off[c] + j], s |-> c, l |-> lineno[c]]]

Min(x, y) == IF x < y THEN x ELSE y

\* write_all makes progress: one write call hands the next bytes of msg to
\* the recipient's socket; with the last byte write_all returns Ok(()).
WriteSome(c) ==
  /\ Running
  /\ pc[c] = "fanout"
  /\ cur[c] # NoEntry
  /\ ~wbroken[cur[c].w]
  /\ LET n == Min(MaxChunk, Len(msg[c]) - off[c]) IN
     /\ out' = [out EXCEPT ![cur[c].w] = @ \o Bytes(c, n)]
     /\ IF off[c] + n = Len(msg[c])
          THEN /\ cur' = [cur EXCEPT ![c] = NoEntry]
               /\ off' = [off EXCEPT ![c] = 0]
          ELSE /\ off' = [off EXCEPT ![c] = off[c] + n]
               /\ UNCHANGED cur
  /\ UNCHANGED <<pc, db, lock, todo, nbcast, mybc, snap, att, errs, eof, wbroken>>
  /\ UNCHANGED mainVars
  /\ UNCHANGED sessVars

\* write_all returns Err(e) and the error ends the loop (a break, or `?`).
WriteFailBreak(c) ==
  /\ Running
  /\ pc[c] = "fanout"
  /\ cur[c] # NoEntry
  /\ wbroken' = [wbroken EXCEPT ![cur[c].w] = TRUE]
  /\ errs' = [errs EXCEPT ![c] = @ \cup {cur[c].key}]
  /\ cur' = [cur EXCEPT ![c] = NoEntry]
  /\ off' = [off EXCEPT ![c] = 0]
  /\ todo' = [todo EXCEPT ![c] = {}]
  /\ UNCHANGED <<pc, db, lock, nbcast, mybc, snap, att, eof, out>>
  /\ UNCHANGED mainVars
  /\ UNCHANGED sessVars

\* write_all returns Err(e) and the broadcaster drops the failing entry.
WriteFailEvict(c) ==
  /\ Running
  /\ pc[c] = "fanout"
  /\ cur[c] # NoEntry
  /\ wbroken' = [wbroken EXCEPT ![cur[c].w] = TRUE]
  /\ errs' = [errs EXCEPT ![c] = @ \cup {cur[c].key}]
  /\ cur' = [cur EXCEPT ![c] = NoEntry]
  /\ off' = [off EXCEPT ![c] = 0]
  /\ db' = [db EXCEPT ![cur[c].key] = NoConn]
  /\ UNCHANGED <<pc, lock, todo, nbcast, mybc, snap, att, eof, out>>
  /\ UNCHANGED mainVars
  /\ UNCHANGED sessVars

\* write_all returns Err(e): the error is printed and the loop goes on.
WriteFail(c) ==
  /\ Running
  /\ pc[c] = "fanout"
  /\ cur[c] # NoEntry
  /\ wbroken' = [wbroken EXCEPT ![cur[c].w] = TRUE]
  /\ errs' = [errs EXCEPT ![c] = @ \cup {cur[c].key}]
  /\ cur' = [cur EXCEPT ![c] = NoEntry]
  /\ off' = [off EXCEPT ![c] = 0]
  /\ UNCHANGED <<pc, db, lock, todo, nbcast, mybc, snap, att, eof, out>>
  /\ UNCHANGED mainVars
  /\ UNCHANGED sessVars

\* The task goes back to read_line as soon as no write is in progress,
\* with entries of the map still to visit.
UnlockEarly(c) ==
  /\ Running
  /\ pc[c] = "fanout"
  /\ cur[c] = NoEntry
  /\ lock' = NoConn
  /\ line' = [line EXCEPT ![c] = <<>>]
  /\ msg' = [msg EXCEPT ![c] = <<>>]
  /\ lineno' = [lineno EXCEPT ![c] = 0]
  /\ pc' = [pc EXCEPT ![c] = "awaiting"]
  /\ mybc' = [mybc EXCEPT ![c] = 0]
  /\ snap' = [snap EXCEPT ![c] = EmptyMap]
  /\ att' = [att EXCEPT ![c] = NoAttempts]
  /\ errs' = [errs EXCEPT ![c] = {}]
  /\ UNCHANGED <<db, nread, todo, cur, off, nbcast>>
  /\ UNCHANGED mainVars
  /\ UNCHANGED sockVars

\* The iterator is exhausted and the guard dropped, but line is not cleared.
UnlockNoClear(c) ==
  /\ Running
  /\ pc[c] = "fanout"
  /\ cur[c] = NoEntry
  /\ todo[c] = {}
  /\ lock' = NoConn
  /\ msg' = [msg EXCEPT ![c] = <<>>]
  /\ lineno' = [lineno EXCEPT ![c] = 0]
  /\ pc' = [pc EXCEPT ![c] = "awaiting"]
  /\ mybc' = [mybc EXCEPT ![c] = 0]
  /\ snap' = [snap EXCEPT ![c] = EmptyMap]
  /\ att' = [att EXCEPT ![c] = NoAttempts]
  /\ errs' = [errs EXCEPT ![c] = {}]
  /\ UNCHANGED <<db, line, nread, todo, cur, off, nbcast>>
  /\ UNCHANGED mainVars
  /\ UNCHANGED sockVars

\* The iterator is exhausted: drop(db_lock); line.clear(); msg goes out of
\* scope; back to read_line.
Unlock(c) ==
  /\ Running
  /\ pc[c] = "fanout"
  /\ cur[c] = NoEntry
  /\ todo[c] = {}
  /\ lock' = NoConn
  /\ line' = [line EXCEPT ![c] = <<>>]
  /\ msg' = [msg EXCEPT ![c] = <<>>]
  /\ lineno' = [lineno EXCEPT ![c] = 0]
  /\ pc' = [pc EXCEPT ![c] = "awaiting"]
  /\ mybc' = [mybc EXCEPT ![c] = 0]
  /\ snap' = [snap EXCEPT ![c] = EmptyMap]
  /\ att' = [att EXCEPT ![c] = NoAttempts]
  /\ errs' = [errs EXCEPT ![c] = {}]
  /\ UNCHANGED <<db, nread, todo, cur, off, nbcast>>
  /\ UNCHANGED mainVars
  /\ UNCHANGED sockVars

\* Ok(0) falls into the Ok(n) arm: the empty line is formatted and broadcast.
ReadZeroAsLine(c) ==
  /\ Running
  /\ pc[c] = "awaiting"
  /\ eof' = [eof EXCEPT ![c] = TRUE]
  /\ msg' = [msg EXCEPT ![c] = Format(addr[c], line[c])]
  /\ pc' = [pc EXCEPT ![c] = "gotline"]
  /\ UNCHANGED <<db, lock, out, wbroken, line, lineno, nread>>
  /\ UNCHANGED mainVars
  /\ UNCHANGED fanVars

\* read_line returns Ok(0): break.
ReadZero(c) ==
  /\ Running
  /\ pc[c] = "awaiting"
  /\ eof' = [eof EXCEPT ![c] = TRUE]
  /\ pc' = [pc EXCEPT ![c] = "closed"]
  /\ UNCHANGED <<db, lock, out, wbroken>>
  /\ UNCHANGED mainVars
  /\ UNCHANGED sessVars
  /\ UNCHANGED fanVars

\* read_line returns Err(e) and the task returns at once, without the remove.
ReadErrReturn(c) ==
  /\ Running
  /\ pc[c] = "awaiting"
  /\ pc' = [pc EXCEPT ![c] = "done"]
  /\ UNCHANGED <<db, lock>>
  /\ UNCHANGED mainVars
  /\ UNCHANGED sessVars
  /\ UNCHANGED fanVars
  /\ UNCHANGED sockVars

\* read_line returns Err(e): break.
ReadErr(c) ==
  /\ Running
  /\ pc[c] = "awaiting"
  /\ pc' = [pc EXCEPT ![c] = "failed"]
  /\ UNCHANGED <<db, lock>>
  /\ UNCHANGED mainVars
  /\ UNCHANGED sessVars
  /\ UNCHANGED fanVars
  /\ UNCHANGED sockVars

\* db.lock().await of line 227.
LockRemove(c) ==
  /\ Running
  /\ pc[c] \in {"closed", "failed"}
  /\ LockFree
  /\ lock' = c
  /\ pc' = [pc EXCEPT ![c] = "removing"]
  /\ UNCHANGED <<db>>
  /\ UNCHANGED mainVars
  /\ UNCHANGED sessVars
  /\ UNCHANGED fanVars
  /\ UNCHANGED sockVars

\* The task returns with its entry left in the map.
RemoveNothing(c) ==
  /\ Running
  /\ pc[c] = "removing"
  /\ lock' = NoConn
  /\ pc' = [pc EXCEPT ![c] = "done"]
  /\ UNCHANGED <<db>>
  /\ UNCHANGED mainVars
  /\ UNCHANGED sessVars
  /\ UNCHANGED fanVars
  /\ UNCHANGED sockVars

\* .clear() in place of .remove(&addr): every entry of the map is dropped.
RemoveAll(c) ==
  /\ Running
  /\ pc[c] = "removing"
  /\ db' = EmptyMap
  /\ lock' = NoConn
  /\ pc' = [pc EXCEPT ![c] = "done"]
  /\ eof' = [eof EXCEPT ![c] = FALSE]
  /\ LET w == db[addr[c]] IN
       /\ out' = [x \in Conns |-> IF x = w THEN <<>> ELSE out[x]]
       /\ wbroken' = [x \in Conns |-> IF x = w THEN FALSE ELSE wbroken[x]]
  /\ UNCHANGED mainVars
  /\ UNCHANGED sessVars
  /\ UNCHANGED fanVars

\* .remove(&addr): the entry's write half, if any, is dropped; the guard is
\* dropped; handle_client returns and its read half is dropped.
Remove(c) ==
  /\ Running
  /\ pc[c] = "removing"
  /\ db' = [db EXCEPT ![addr[c]] = NoConn]
  /\ lock' = NoConn
  /\ pc' = [pc EXCEPT ![c] = "done"]
  /\ eof' = [eof EXCEPT ![c] = FALSE]
  /\ LET w == db[addr[c]] IN
       /\ out' = [x \in Conns |-> IF x = w THEN <<>> ELSE out[x]]
       /\ wbroken' = [x \in Conns |-> IF x = w THEN FALSE ELSE wbroken[x]]
  /\ UNCHANGED mainVars
  /\ UNCHANGED sessVars
  /\ UNCHANGED fanVars

Next ==
  \/ \E a \in Addrs : Accept(a)
  \/ AcceptFail
  \/ \E c \in Conns : LockInsert(c)
  \/ \E c \in Conns : Insert(c)
  \/ \E c \in Conns, l \in Terminated \cup Unterminated : ReadLine(c, l)
  \/ \E c \in Conns : LockBroadcast(c)
  \/ \E c \in Conns, k \in Addrs : Visit(c, k)
  \/ \E c \in Conns : WriteSome(c)
  \/ \E c \in Conns : WriteFail(c)
  \/ \E c \in Conns : Unlock(c)
  \/ \E c \in Conns : ReadZero(c)
  \/ \E c \in Conns : ReadErr(c)
  \/ \E c \in Conns : LockRemove(c)
  \/ \E c \in Conns : Remove(c)

Spec == Init /\ [][Next]_vars

\* What the runtime guarantees: a task that can go on is polled.  Whether a
\* write_all completes is up to the peer (a peer that does not read leaves
\* it pending), and accepts, reads and errors come from outside: none of
\* these is required to happen.
Fairness ==
  /\ WF_vars(\E c \in Conns : LockInsert(c))
  /\ WF_vars(\E c \in Conns : Insert(c))
  /\ WF_vars(\E c \in Conns : LockBroadcast(c))
  /\ WF_vars(\E c \in Conns, k \in Addrs : Visit(c, k))
  /\ WF_vars(\E c \in Conns : Unlock(c))
  /\ WF_vars(\E c \in Conns : LockRemove(c))
  /\ WF_vars(\E c \in Conns : Remove(c))

FairSpec == Spec /\ Fairness

\* ------------------------------------------------------------- properties
Registered(c) ==
  pc[c] \in {"awaiting", "gotline", "fanout", "closed", "failed", "removing"}
Gone(c) == pc[c] \in {"closed", "failed", "removing", "done"}
Accepted == 1..nconn
\* c's fanout has visited every entry and no write is in progress.
FanoutOver(c) == pc[c] = "fanout" /\ todo[c] = {} /\ cur[c] = NoEntry
\* The broadcasts written in full to connection r, in stream order.
Last(s) == s[Len(s)]
IsLastByte(x) == x.i = x.n
Recv(r) == SelectSeq(out[r], IsLastByte)
\* Byte j of stream s continues the message of byte j-1, or starts a message
\* right after the end of one.
ByteInPlace(s, j) ==
  \/ s[j].i = 1 /\ (j = 1 \/ s[j - 1].i = s[j - 1].n)
  \/ s[j].i > 1 /\ j > 1 /\ s[j - 1].b = s[j].b /\ s[j - 1].i = s[j].i - 1
Contiguous(s) == \A j \in 1..Len(s) : ByteInPlace(s, j)
EndsWhole(s) == s = <<>> \/ Last(s).i = Last(s).n
WriteInProgressTo(r) == \E c \in Conns : cur[c].w = r

\* C1: in a fanout, write_all has been started exactly once to every key
\* that was in the registry when the fanout took the lock, differs from the
\* sender's and has been yielded by the iterator, and never to another key;
\* so when the iteration is over the keys written to are exactly the
\* non-sender keys of the registry at lock time, once each.
C1_RecipientSet ==
  \A c \in Conns : pc[c] = "fanout" =>
    \A k \in Addrs :
      att[c][k] = IF k # addr[c] /\ k \in Keys(snap[c]) /\ k \notin todo[c]
                    THEN 1 ELSE 0

C1_Witness ==
  \E c \in Conns : FanoutOver(c) /\ Cardinality(Keys(snap[c])) = 3
                   /\ \E k \in Addrs : att[c][k] = 1

\* C2: no write of a session's message is ever started to the entry under
\* the session's own key, and no stream of a connection holds a message
\* that begins with that connection's own identifier.
C2_SenderExcluded ==
  \A c \in Accepted :
    /\ att[c][addr[c]] = 0
    /\ cur[c].key # addr[c]
    /\ \A j \in 1..Len(out[c]) : out[c][j].i = 1 => out[c][j].ch # addr[c]

C2_Witness ==
  \E c \in Conns : FanoutOver(c) /\ addr[c] \in Keys(snap[c])
                   /\ \E r \in Conns : r # c /\ Recv(r) # <<>>
                                       /\ Last(Recv(r)).b = mybc[c]

\* C3: when a write_all of a fanout has returned an error and the iteration
\* is over, write_all has been started to every non-sender key that was in
\* the registry at lock time.
C3_FanoutNotAborted ==
  \A c \in Conns : FanoutOver(c) /\ errs[c] # {} =>
    \A k \in Keys(snap[c]) \ {addr[c]} : att[c][k] = 1

C3_Witness ==
  \E c \in Conns : FanoutOver(c) /\ errs[c] # {}
    /\ \E r \in Conns : addr[r] \notin errs[c] /\ Recv(r) # <<>>
                        /\ Last(Recv(r)).b = mybc[c]

\* C4 as stated: whenever a broadcast acquires the lock, the identifier of
\* every session whose read has returned zero bytes or an error is absent
\* from the registry.
C4_AbsentAfterDisconnect ==
  [][\A c \in Conns : pc[c] = "gotline" /\ pc'[c] = "fanout" =>
       \A r \in Conns : Gone(r) => db[addr[r]] = NoConn]_vars

\* C4 amended: once a session's remove has completed, its connection's write
\* half is in no registry entry, in no fanout's view of the registry, and
\* is not being written to.
C4_AbsentAfterRemove ==
  \A r \in Conns : pc[r] = "done" =>
    \A c \in Conns :
      /\ \A k \in Addrs : db[k] # r /\ snap[c][k] # r
      /\ cur[c].w # r

C4_Witness ==
  \E r, c \in Conns : pc[r] = "done" /\ pc[c] = "fanout" /\ cur[c] # NoEntry
                      /\ cur[c].key = addr[r]
                      /\ db[addr[r]] # NoConn

\* C5 as stated: whenever no write to a recipient is in progress, its
\* stream is a concatenation of whole messages.
C5_WholeMessages ==
  \A r \in Conns : ~WriteInProgressTo(r) =>
    Contiguous(out[r]) /\ EndsWhole(out[r])

\* C5 amended: in every recipient's stream the bytes of each message are
\* contiguous and in order, so the stream is a concatenation of whole
\* messages, followed by a leading part of one more message only while that
\* message's write is in progress or after a write to the recipient failed.
C5_NoInterleaving ==
  \A r \in Conns :
    /\ Contiguous(out[r])
    /\ ~EndsWhole(out[r]) => WriteInProgressTo(r) \/ wbroken[r]

C5_Witness ==
  \E c1, c2, r \in Conns :
    /\ pc[c1] = "fanout" /\ cur[c1].w = r /\ off[c1] > 0
    /\ pc[c2] = "gotline" /\ r # c2 /\ db[addr[r]] = r

C7_NoLostRegistration ==
  (\A c \in Accepted : pc[c] \in {"awaiting", "gotline", "fanout"}) =>
    /\ Keys(db) = {addr[c] : c \in Accepted}
    /\ Cardinality(Keys(db)) = nconn
    /\ \A c \in Accepted : db[addr[c]] = c

C7_Witness ==
  nconn = MaxConn /\ \A c \in Conns : pc[c] = "awaiting"

\* C8: a connection's write half is in the registry, under the connection's
\* own identifier and nowhere else, exactly when its task has completed the
\* insert and has not completed the remove.
C8_EntryIffRegistered ==
  \A c \in Conns :
    /\ (\E k \in Addrs : db[k] = c) <=> Registered(c)
    /\ \A k \in Addrs : db[k] = c => k = addr[c]

C8_Witness ==
  \E c1, c2, c3 \in Conns :
    pc[c1] = "done" /\ pc[c2] = "inserting" /\ Registered(c3) /\ db[addr[c3]] = c3

\* C9: every change of a registry entry is either the insert of a task that
\* puts its own connection's write half under its own identifier where no
\* entry was, or the remove of a task that deletes the entry holding its
\* own connection's write half.
C9_EntryOwnership ==
  [][\A k \in Addrs : db'[k] # db[k] =>
       \/ /\ db[k] = NoConn
          /\ db'[k] \in Conns
          /\ addr[db'[k]] = k
          /\ pc[db'[k]] = "inserting" /\ pc'[db'[k]] = "awaiting"
       \/ /\ db'[k] = NoConn
          /\ db[k] \in Conns
          /\ addr[db[k]] = k
          /\ pc[db[k]] = "removing" /\ pc'[db[k]] = "done"]_vars

C9_Witness ==
  \E c1, c2 \in Conns : c1 # c2 /\ addr[c1] = addr[c2] /\ pc[c1] = "done"
                        /\ db[addr[c2]] = c2

\* C10: after a listener.accept() has returned an error the acceptor loop
\* is still running.
C10_AcceptFailureNonFatal ==
  acceptErr => main = "accepting"

\* C11: while the process runs, every session that has read a line finishes
\* its broadcast, and every accepted connection gets registered, whatever
\* the peers of the other connections do.
C11_Availability ==
  \A c \in Conns :
    /\ [](pc[c] \in {"gotline", "fanout"} => <>(pc[c] = "awaiting" \/ ~Running))
    /\ [](pc[c] = "connecting" => <>(pc[c] = "awaiting" \/ ~Running))

\* C12: throughout a fanout, up to the release of the lock, the registry
\* holds the same keys with the same write halves as when the fanout
\* acquired the lock, also after a write_all of the fanout returned Err.
C12_RegistryUnchanged ==
  \A c \in Conns : pc[c] = "fanout" => db = snap[c]

C12_Witness ==
  \E c \in Conns : FanoutOver(c) /\ errs[c] # {} /\ errs[c] \subseteq Keys(db)
                   /\ Cardinality(Keys(db)) = 3

\* C13: while the process runs, a session whose read has returned zero
\* bytes or an error reads and broadcasts no more and eventually completes
\* the remove of its own identifier, the same on both paths.
C13_Cleanup ==
  /\ [][\A c \in Conns : pc[c] \in {"closed", "failed", "removing"}
          => pc'[c] \in {"closed", "failed", "removing", "done"}]_vars
  /\ \A c \in Conns :
       [](pc[c] \in {"closed", "failed"} => <>(pc[c] = "done" \/ ~Running))

\* The task-local state of session c and the state of its socket.
SessionState(c) ==
  <<pc[c], line[c], msg[c], todo[c], cur[c], off[c], mybc[c], snap[c],
    att[c], errs[c], out[c], wbroken[c], eof[c]>>

\* C14: every step of a session x on its way out after a read error (the
\* break, the lock of the remove, the remove) leaves main running as it was,
\* changes no other session's state and no registry entry but the one under
\* x's identifier, and the last of them leaves no entry under x's identifier.
C14_ReadFailureLocal ==
  [][\A x \in Conns :
       (\/ pc[x] = "awaiting" /\ pc'[x] = "failed"
        \/ pc[x] = "failed" /\ pc'[x] = "removing"
        \/ pc[x] = "removing" /\ pc'[x] = "done")
       => /\ main' = main
          /\ \A c \in Conns \ {x} : SessionState(c)' = SessionState(c)
          /\ \A k \in Addrs \ {addr[x]} : db'[k] = db[k]
          /\ db'[addr[x]] = IF pc'[x] = "done" THEN NoConn ELSE db[addr[x]]]_vars

C14_Witness ==
  \E x, c1, c2 \in Conns :
    /\ pc[x] = "failed"
    /\ pc[c1] = "fanout" /\ cur[c1].w = x /\ off[c1] > 0
    /\ pc[c2] = "awaiting" /\ db[addr[c2]] = c2

\* The moves of a task: Connecting (connecting, inserting), Registered and
\* AwaitingLine (awaiting), Broadcasting (gotline, fanout), Disconnected
\* (closed, failed, removing: on the way; done: terminal).
SessionEdges ==
  {<<"unborn", "connecting">>, <<"connecting", "inserting">>,
   <<"inserting", "awaiting">>, <<"awaiting", "gotline">>,
   <<"gotline", "fanout">>, <<"fanout", "awaiting">>,
   <<"awaiting", "closed">>, <<"awaiting", "failed">>,
   <<"closed", "removing">>, <<"failed", "removing">>,
   <<"removing", "done">>}

\* C15: a task's position changes only along the edges of the session state
\* machine; a task that reads or has read holds its entry in the registry
\* (the insert is complete before the first read); a task is broadcasting
\* only with a non-empty line, and a write or an iteration is in progress
\* only in a fanout; a task that has completed its remove stays there, holds
\* no lock, and nothing of its state changes any more.
C15_SessionStateMachine ==
  /\ [](\A c \in Conns :
         /\ pc[c] \in {"awaiting", "gotline", "fanout"} => db[addr[c]] = c
         /\ pc[c] \in {"gotline", "fanout"} => line[c] # <<>>
         /\ pc[c] # "fanout" => cur[c] = NoEntry /\ todo[c] = {}
         /\ pc[c] \in {"unborn", "connecting"} =>
              lock # c /\ \A k \in Addrs : db[k] # c
         /\ pc[c] = "done" => lock # c /\ \A k \in Addrs : db[k] # c)
  /\ [][\A c \in Conns :
          /\ pc'[c] # pc[c] => <<pc[c], pc'[c]>> \in SessionEdges
          /\ pc[c] = "done" => SessionState(c)' = SessionState(c)]_vars

C15_Witness ==
  \E c, r, c2 \in Conns :
    /\ pc[c] = "done" /\ \A d \in Conns \ {c} : addr[d] # addr[c]
    /\ \E j \in 1..Len(out[r]) : out[r][j].i = 1 /\ out[r][j].ch = addr[c]
    /\ pc[c2] = "fanout" /\ cur[c2] # NoEntry

\* The tasks inside a registry operation: between the lock and the end of
\* the insert, of the fanout, or of the remove.
InRegistryOp == {c \in Conns : pc[c] \in {"inserting", "fanout", "removing"}}

\* C16: at most one task is inside a registry operation, and it is the
\* holder of the lock; no step taken while a task is in its fanout, from the
\* lock to the unlock, changes the registry.
C16_MutualExclusion ==
  /\ [](/\ Cardinality(InRegistryOp) <= 1
        /\ \A c \in InRegistryOp : lock = c)
  /\ [][(\E c \in Conns : pc[c] = "fanout") => db' = db]_vars

C16_Witness ==
  \E c1, c2, c3 \in Conns :
    /\ pc[c1] = "fanout" /\ cur[c1] # NoEntry /\ off[c1] > 0
    /\ pc[c2] = "connecting"
    /\ pc[c3] \in {"closed", "failed"}

\* C17: while main runs (and the model's bound on connections is not
\* reached) the accept of the next connection is enabled, whatever the
\* positions of the tasks and whoever holds the lock; the step that accepts
\* a connection only spawns its task: it leaves the registry, the lock and
\* every other task as they were, the new task being at its start.
C17_AcceptorNeverWaits ==
  /\ [](Running /\ nconn < MaxConn => ENABLED (\E a \in Addrs : Accept(a)))
  /\ [][nconn' # nconn =>
          /\ db' = db /\ lock' = lock
          /\ pc'[nconn'] = "connecting"
          /\ \A c \in Conns \ {nconn'} : SessionState(c)' = SessionState(c)]_vars

C17_Witness ==
  \E c1, c2 \in Conns :
    /\ Running /\ nconn < MaxConn
    /\ pc[c1] = "fanout" /\ lock = c1 /\ cur[c1] # NoEntry
    /\ pc[c2] \in {"connecting", "gotline", "closed", "failed"}
    /\ ENABLED (\E a \in Addrs : Accept(a))

\* C18: whenever a task is about to read (and before its first read) its
\* line is empty; whenever it holds a message, line is the one line the last
\* read_line delivered and msg is made of the task's identifier and that
\* line alone.
C18_LineBufferDiscipline ==
  \A c \in Conns :
    /\ pc[c] \in {"unborn", "connecting", "inserting", "awaiting"} => line[c] = <<>>
    /\ pc[c] \in {"gotline", "fanout"} =>
         /\ line[c] \in Terminated \cup Unterminated
         /\ msg[c] = Format(addr[c], line[c])

C18_Witness ==
  \E c, r \in Conns :
    /\ pc[c] = "gotline" /\ nread = 2
    /\ \A d \in Conns \ {c} : addr[d] # addr[c]
    /\ Recv(r) # <<>> /\ out[r][1].ch = addr[c]

\* C19: every byte written to a recipient is in its place in a payload made
\* of an identifier, then ": ", then a line that ends with its newline: the
\* first byte is an identifier, the second and third are the separator, and
\* the last byte is the newline.
C19_PayloadFormat ==
  \A r \in Conns : \A j \in 1..Len(out[r]) :
    /\ out[r][j].n > Len(Separator) + 1
    /\ out[r][j].i = 1 => out[r][j].ch \in Addrs
    /\ out[r][j].i \in {2, 3} => out[r][j].ch = Separator[out[r][j].i - 1]
    /\ out[r][j].i = out[r][j].n => out[r][j].ch = "\n"

\* C20: in every recipient's stream the bytes of one sender's messages are
\* in the order in which the sender read the lines; and a task that is at
\* read_line holds no line, has no entry left to visit and no write in
\* progress, and does not hold the lock: the fanout of its previous line is
\* over.
C20_PerSenderFifo ==
  /\ \A r \in Conns : \A j1, j2 \in 1..Len(out[r]) :
       j1 < j2 /\ out[r][j1].s = out[r][j2].s => out[r][j1].l <= out[r][j2].l
  /\ \A c \in Conns : pc[c] = "awaiting" =>
       /\ lineno[c] = 0 /\ mybc[c] = 0
       /\ todo[c] = {} /\ cur[c] = NoEntry /\ lock # c

C20_Witness ==
  \E r \in Conns :
    /\ Len(Recv(r)) = 2
    /\ Recv(r)[1].s = Recv(r)[2].s
    /\ Recv(r)[1].l = 1 /\ Recv(r)[2].l = 2
    /\ pc[Recv(r)[1].s] = "awaiting"

\* The positions at which a task waits for the lock.
AtLockRequest == {"connecting", "gotline", "closed", "failed"}

\* C21: the holder of the lock, if any, is a task inside a registry
\* operation, so no task at read_line and no task waiting for the lock holds
\* it, and with no task inside a registry operation the lock is free; the
\* lock is taken only when free and only by a task at one of its lock
\* requests, and every step by which a task leaves a registry operation
\* (the insert, the fanout whether or not writes failed, the remove)
\* releases it.
C21_LockHygiene ==
  /\ [](/\ lock \in Conns => lock \in InRegistryOp
        /\ InRegistryOp = {} => lock = NoConn
        /\ \A c \in Conns : pc[c] = "awaiting" \/ pc[c] \in AtLockRequest => lock # c)
  /\ [][\A c \in Conns :
          /\ lock' = c /\ lock # c => lock = NoConn /\ pc[c] \in AtLockRequest
          /\ c \in InRegistryOp /\ pc'[c] # pc[c] => lock = c /\ lock' = NoConn]_vars

C21_Witness ==
  \E c, r, d \in Conns :
    /\ InRegistryOp = {} /\ lock = NoConn
    /\ pc[c] = "awaiting" /\ wbroken[r] /\ Recv(c) # <<>>
    /\ pc[d] = "done"

====
